---------------------------- MODULE Spec2Model ----------------------------
(***************************************************************************)
(* Model of the trade copier of src/main.py: the ledger (processed_trades  *)
(* and holdings, two SQLite tables), the polling loop of                   *)
(* fetch_and_copy_trades, and the exchange it talks to.                    *)
(*                                                                         *)
(* Amounts are REAL in the source.  They are modelled as exact integers:   *)
(* the balances and prices below are chosen so that balance * 0.1 / price  *)
(* is an integer, and floating-point rounding is not modelled.             *)
(***************************************************************************)
EXTENDS Integers, Sequences, FiniteSets, TLC

(***************************************************************************)
(* Bounds of the model.                                                    *)
(***************************************************************************)
\* Lead trades the account makes at most.
MaxLead == 2
\* Orders of the copier the exchange accepts at most.
MaxOrders == 2
\* Calls of update_holdings in the ledger-only specification.
MaxCalls == 3

(***************************************************************************)
(* The exchange's markets and the inputs the exchange can deliver.         *)
(***************************************************************************)
Symbols == {"BTC/USDT", "ETH/USDT", "ETH/BTC"}

\* market['quote'] of exchange.market(symbol), src/main.py:126-128
Quote(symbol) == IF symbol = "ETH/BTC" THEN "BTC" ELSE "USDT"

\* exchange.market(symbol), src/main.py:126, finds the symbol among the
\* markets load_markets has loaded; for any other symbol it raises BadSymbol.
KnownMarket(symbol) == symbol \in Symbols

\* The lead trades the account can make: trade['symbol'], trade['side'] (ccxt
\* leaves it None when the exchange does not report it) and trade['price'].
\* LUNA/USDT is a market the exchange has delisted since the trade.
LeadInputs ==
    {[symbol |-> "BTC/USDT", side |-> "buy", price |-> 2],
     [symbol |-> "BTC/USDT", side |-> "buy", price |-> 5],
     [symbol |-> "BTC/USDT", side |-> "sell", price |-> 2],
     [symbol |-> "BTC/USDT", side |-> "none", price |-> 2],
     [symbol |-> "ETH/USDT", side |-> "buy", price |-> 5],
     [symbol |-> "ETH/BTC", side |-> "buy", price |-> 2],
     [symbol |-> "LUNA/USDT", side |-> "buy", price |-> 2]}

\* balance['USDT']['free'], src/main.py:88
Balances == {100, 200}

\* limit=10 of fetch_my_trades, src/main.py:114
limit == 10

VARIABLES
    pc,                \* where fetch_and_copy_trades stands
    processed_trades,  \* table processed_trades: a set of rows
    holdings,          \* table holdings: symbol -> amount, one entry per row
    usdt_balance,      \* local usdt_balance of the current cycle
    order_amount_usdt, \* local order_amount_usdt of the current cycle
    page,              \* what is left of reversed(trades) in the current cycle
    amount,            \* local amount: <<>> while unbound, <<v>> once assigned
    history,           \* exchange: the account's trades, oldest first
    orders,            \* exchange: the copier's orders it accepted, in order
    newest_first,      \* exchange: fetch_my_trades returns the newest trade first
    unique_ids,        \* exchange: every order gets an id never used before
    rejected,          \* exchange: timestamps of the trades whose order it refused
    order_cap,         \* exchange: how many orders it accepts at most in a run
    ev                 \* the last step taken and how it ended

vars == <<pc, processed_trades, holdings, usdt_balance, order_amount_usdt, page,
          amount, history, orders, newest_first, unique_ids, rejected, order_cap, ev>>

exchange == <<history, orders, newest_first, unique_ids, rejected, order_cap>>

ledger == <<processed_trades, holdings>>
locals == <<usdt_balance, order_amount_usdt, page, amount>>

NoTrade == [order |-> 0, symbol |-> "", side |-> "", price |-> 0, timestamp |-> 0]

(***************************************************************************)
(* Sequences.                                                              *)
(***************************************************************************)
\* reversed(trades), src/main.py:116
reversed(s) == [i \in 1..Len(s) |-> s[Len(s) + 1 - i]]

\* The last n elements of s.
LastN(s, n) == IF Len(s) <= n THEN s ELSE SubSeq(s, Len(s) - n + 1, Len(s))

(***************************************************************************)
(* The ledger, src/main.py:24-84.                                          *)
(***************************************************************************)
\* init_db on a new database file: both tables empty.
EmptyProcessed == {}
EmptyHoldings == [s \in {} |-> 0]

\* The rows of pt with primary key ord_id (ord_id TEXT PRIMARY KEY).
RowsOf(pt, ord_id) == {r \in pt : r.ord_id = ord_id}

\* Mutant: the lookup finds no row.
is_trade_processed_never(pt, ord_id) == FALSE

is_trade_processed(pt, ord_id) == RowsOf(pt, ord_id) # {}

\* Mutant: INSERT OR REPLACE, the new row takes the place of the old one.
mark_trade_as_processed_replaces(pt, ord_id, symbol, amt, side) ==
    [raised |-> FALSE,
     pt |-> (pt \ RowsOf(pt, ord_id)) \cup {[ord_id |-> ord_id, symbol |-> symbol,
                                             amount |-> amt, side |-> side]}]

\* The INSERT of mark_trade_as_processed; ord_id is the PRIMARY KEY, so the
\* INSERT raises sqlite3.IntegrityError when a row with that ord_id exists.
\* processed_at (datetime.now()) is never read and is left out of the row.
mark_trade_as_processed(pt, ord_id, symbol, amt, side) ==
    IF RowsOf(pt, ord_id) # {}
    THEN [raised |-> TRUE, pt |-> pt]
    ELSE [raised |-> FALSE,
          pt |-> pt \cup {[ord_id |-> ord_id, symbol |-> symbol,
                           amount |-> amt, side |-> side]}]

\* Mutant: the side is not looked at, a sell adds like a buy.
update_holdings_adds(h, symbol, amt, side) ==
    IF symbol \in DOMAIN h
    THEN [h EXCEPT ![symbol] = @ + amt]
    ELSE [s \in DOMAIN h \cup {symbol} |-> IF s = symbol THEN amt ELSE h[s]]

update_holdings(h, symbol, amt, side) ==
    IF symbol \in DOMAIN h
    THEN [h EXCEPT ![symbol] = IF side = "buy" THEN @ + amt ELSE @ - amt]
    ELSE [s \in DOMAIN h \cup {symbol} |-> IF s = symbol THEN amt ELSE h[s]]

get_holding_amount(h, symbol) == IF symbol \in DOMAIN h THEN h[symbol] ELSE 0


(***************************************************************************)
(* The exchange.                                                           *)
(***************************************************************************)
\* The id the exchange gives its next order.  Every trade of the history
\* belongs to an order of its own, so Len(history) + 1 was never used.  An
\* exchange that does not keep its ids unique may also hand out a used one;
\* the program can tell only if processed_trades holds it.
NewOrderIds ==
    {Len(history) + 1}
       \cup (IF unique_ids THEN {} ELSE {r.ord_id : r \in processed_trades})

\* The trade the account's history gets when an order is filled.
Fill(id, symbol, side, price) ==
    [order |-> id, symbol |-> symbol, side |-> side, price |-> price,
     timestamp |-> Len(history) + 1]

\* Mutant: the exchange returns all the trades of the account.
fetch_my_trades_unlimited == IF newest_first THEN reversed(history) ELSE history

\* exchange.fetch_my_trades(symbol=None, since=None, limit=10), src/main.py:114
fetch_my_trades ==
    IF newest_first THEN reversed(LastN(history, limit))
    ELSE LastN(history, limit)

\* exchange.create_market_order accepted: the order is on the exchange's
\* books and its fill is in the account's history.  lead is the timestamp
\* of the trade the order answers.
Accept(id, t, amt) ==
    /\ Len(orders) < order_cap
    /\ orders' = Append(orders, [id |-> id, symbol |-> t.symbol, side |-> t.side,
                                 amount |-> amt, lead |-> t.timestamp])
    /\ history' = Append(history, Fill(id, t.symbol, t.side, t.price))
    /\ UNCHANGED rejected

\* exchange.create_market_order (or set_margin_mode before it) raised:
\* InsufficientFunds, another ExchangeError or any other exception.
Refuse(t) ==
    /\ rejected' = rejected \cup {t.timestamp}
    /\ UNCHANGED <<history, orders>>

(***************************************************************************)
(* One iteration of "for trade in reversed(trades)", src/main.py:116-162.  *)
(***************************************************************************)
\* Where the process can be stopped for good inside one iteration: while the
\* order is in flight (the exchange took it, the answer is never read),
\* after line 140/151, after line 141/152; "none": it is not stopped.
Halts == {"none", "in_flight", "after_mark", "after_holdings"}

Outcome(pt, h, result) == [pt |-> pt, h |-> h, result |-> result]

\* Line 156, mark_trade_as_processed(ord_id, symbol, amount, side): a is the
\* local amount, and reading it while unbound raises UnboundLocalError.
MarkLead(pt, h, t, a) ==
    IF a = <<>>
    THEN Outcome(pt, h, "raised")
    ELSE LET m == mark_trade_as_processed(pt, t.order, t.symbol, a[1], t.side)
         IN  Outcome(m.pt, h, IF m.raised THEN "raised" ELSE "ok")

\* Mutant: the id of the follower order is not written, only the holding
\* and the lead trade are.
RecordWithoutOrderId(new_id, t, amt, a, halt) ==
    LET h1 == update_holdings(holdings, t.symbol, amt, t.side)
    IN  IF halt \in {"in_flight", "after_mark"}
        THEN Outcome(processed_trades, holdings, "halt")
        ELSE IF halt = "after_holdings" THEN Outcome(processed_trades, h1, "halt")
        ELSE MarkLead(processed_trades, h1, t, a)

\* Lines 140-141 (buy) and 151-152 (sell), then line 156: what follows an
\* accepted order new_id of amt.  An exception leaves the try block at once.
Record(new_id, t, amt, a, halt) ==
    LET m == mark_trade_as_processed(processed_trades, new_id, t.symbol, amt, t.side)
        h1 == update_holdings(holdings, t.symbol, amt, t.side)
    IN  IF halt = "in_flight" THEN Outcome(processed_trades, holdings, "halt")
        ELSE IF m.raised THEN Outcome(processed_trades, holdings, "raised")
        ELSE IF halt = "after_mark" THEN Outcome(m.pt, holdings, "halt")
        ELSE IF halt = "after_holdings" THEN Outcome(m.pt, h1, "halt")
        ELSE MarkLead(m.pt, h1, t, a)

\* The iteration is over: the loop goes on with the next trade, or the
\* process is gone and its locals with it.
Finish(t, op, out, accepted, a) ==
    /\ processed_trades' = out.pt
    /\ holdings' = out.h
    /\ ev' = [op |-> op, trade |-> t, result |-> out.result, accepted |-> accepted]
    /\ IF out.result = "halt"
       THEN /\ pc' = "stopped"
            /\ page' = <<>>
            /\ amount' = <<>>
            /\ usdt_balance' = 0
            /\ order_amount_usdt' = 0
       ELSE /\ pc' = "trades"
            /\ page' = Tail(page)
            /\ amount' = a
            /\ UNCHANGED <<usdt_balance, order_amount_usdt>>
    /\ UNCHANGED <<newest_first, unique_ids, order_cap>>

AtTrade == pc = "trades" /\ page # <<>>

\* Mutant: every market passes the quote filter.
AnyQuote(quote) == TRUE

\* Line 128, market['quote'] != 'USDT', negated.
IsUSDT(quote) == quote = "USDT"

\* Mutant: >= for >.
HasHoldingsOrNone(amount_to_sell) == amount_to_sell >= 0

\* Line 144, amount_to_sell > 0.
HasHoldings(amount_to_sell) == amount_to_sell > 0

\* Mutant: line 156 runs after a refused order too, as in a finally clause.
RejectedButMarked(t, a) ==
    Outcome(MarkLead(processed_trades, holdings, t, a).pt, holdings, "rejected")

\* Lines 157-162: the handlers of the try block log the error and do nothing
\* else; a is the local amount as the try block left it.
Rejected(t, a) == Outcome(processed_trades, holdings, "rejected")

\* Lines 119-120: the trade's order id is in processed_trades.
SkipProcessed ==
    /\ AtTrade
    /\ is_trade_processed(processed_trades, Head(page).order)
    /\ Finish(Head(page), "skip_processed", Outcome(processed_trades, holdings, "skip"),
              FALSE, amount)
    /\ UNCHANGED <<history, orders, rejected>>

\* Lines 124-130: the market is not quoted in USDT.
SkipQuote ==
    /\ AtTrade
    /\ ~is_trade_processed(processed_trades, Head(page).order)
    /\ KnownMarket(Head(page).symbol)
    /\ ~IsUSDT(Quote(Head(page).symbol))
    /\ Finish(Head(page), "skip_quote", Outcome(processed_trades, holdings, "skip"),
              FALSE, amount)
    /\ UNCHANGED <<history, orders, rejected>>

\* Line 126 is outside the try block of line 132: BadSymbol leaves the for
\* loop and is caught by the handlers of lines 166-174, which end the cycle.
MarketError ==
    /\ AtTrade
    /\ ~is_trade_processed(processed_trades, Head(page).order)
    /\ ~KnownMarket(Head(page).symbol)
    /\ pc' = "backoff"
    /\ page' = <<>>
    /\ ev' = [op |-> "market_error", trade |-> Head(page), result |-> "raised",
              accepted |-> FALSE]
    /\ UNCHANGED <<ledger, usdt_balance, order_amount_usdt, amount, exchange>>

Eligible(t) ==
    /\ ~is_trade_processed(processed_trades, t.order)
    /\ KnownMarket(t.symbol)
    /\ IsUSDT(Quote(t.symbol))

\* Mutant: the follower buys as many units as it has quote currency to spend.
PriceIsIgnored(quote_amount, price) == quote_amount

\* Line 135: amount = order_amount_usdt / price.  The amounts of the model
\* are integers and the inputs are chosen so that the divisions are exact.
AmountFor(quote_amount, price) == quote_amount \div price

\* Lines 133-141 and 156-162.
Buy ==
    /\ AtTrade
    /\ Eligible(Head(page))
    /\ Head(page).side = "buy"
    /\ LET t == Head(page)
           amt == AmountFor(order_amount_usdt, t.price)
       IN  \/ /\ Refuse(t)
              /\ Finish(t, "buy", Rejected(t, <<amt>>), FALSE, <<amt>>)
           \/ \E id \in NewOrderIds, halt \in Halts :
                 /\ Accept(id, t, amt)
                 /\ Finish(t, "buy", Record(id, t, amt, <<amt>>, halt), TRUE, <<amt>>)

\* Lines 142-162.
Sell ==
    /\ AtTrade
    /\ Eligible(Head(page))
    /\ Head(page).side = "sell"
    /\ LET t == Head(page)
           amount_to_sell == get_holding_amount(holdings, t.symbol)
       IN  IF HasHoldings(amount_to_sell)
           THEN \/ /\ Refuse(t)
                   /\ Finish(t, "sell", Rejected(t, amount), FALSE, amount)
                \/ \E id \in NewOrderIds, halt \in Halts :
                      /\ Accept(id, t, amount_to_sell)
                      /\ Finish(t, "sell", Record(id, t, amount_to_sell, amount, halt),
                                TRUE, amount)
           ELSE /\ Finish(t, "sell", MarkLead(processed_trades, holdings, t, amount),
                          FALSE, amount)
                /\ UNCHANGED <<history, orders, rejected>>

\* Neither branch of lines 133/142 is taken; line 156 still runs.
OtherSide ==
    /\ AtTrade
    /\ Eligible(Head(page))
    /\ Head(page).side \notin {"buy", "sell"}
    /\ Finish(Head(page), "other", MarkLead(processed_trades, holdings, Head(page), amount),
              FALSE, amount)
    /\ UNCHANGED <<history, orders, rejected>>

(***************************************************************************)
(* The rest of fetch_and_copy_trades, src/main.py:92-179.                  *)
(***************************************************************************)
Moved(op) == ev' = [op |-> op, trade |-> NoTrade, result |-> "ok", accepted |-> FALSE]

\* Line 103, exchange.load_markets(): an exception here is caught by no
\* handler but "finally" and ends the process.
Connect ==
    /\ pc = "connect"
    /\ \/ pc' = "poll" /\ Moved("connect")
       \/ pc' = "stopped" /\ Moved("connect_failed")
    /\ UNCHANGED <<ledger, locals, exchange>>

\* Lines 108-114: the balance, the accounts and the page of trades.
Poll ==
    /\ pc = "poll"
    /\ \E b \in Balances :
          /\ usdt_balance' = b
          /\ order_amount_usdt' = b \div 10      \* usdt_balance * 0.1
    /\ page' = reversed(fetch_my_trades)
    /\ pc' = "trades"
    /\ Moved("poll")
    /\ UNCHANGED <<ledger, amount, exchange>>

PollFailedExits ==
    /\ pc = "poll"
    /\ pc' = "stopped"
    /\ Moved("poll_failed")
    /\ UNCHANGED <<ledger, locals, exchange>>

\* Lines 166-174: one of the calls of lines 108-114 raised.
PollFailed ==
    /\ pc = "poll"
    /\ pc' = "backoff"
    /\ Moved("poll_failed")
    /\ UNCHANGED <<ledger, locals, exchange>>

\* The for loop is through: line 164.
EndCycle ==
    /\ pc = "trades"
    /\ page = <<>>
    /\ pc' = "sleep"
    /\ Moved("end_cycle")
    /\ UNCHANGED <<ledger, locals, exchange>>

\* asyncio.sleep(10) of line 164, asyncio.sleep(5) of lines 168-174.
Sleep ==
    /\ pc \in {"sleep", "backoff"}
    /\ pc' = "poll"
    /\ Moved("sleep")
    /\ UNCHANGED <<ledger, locals, exchange>>

Running == pc \in {"connect", "poll", "trades", "sleep", "backoff"}

\* The process is cancelled or killed between two steps: lines 176-179.
Stop ==
    /\ Running
    /\ pc' = "stopped"
    /\ page' = <<>>
    /\ amount' = <<>>
    /\ usdt_balance' = 0
    /\ order_amount_usdt' = 0
    /\ Moved("stop")
    /\ UNCHANGED <<ledger, exchange>>

\* The program is started again on the same trades.db: lines 181-183.
\* init_db creates the tables only if they do not exist.
Restart ==
    /\ pc = "stopped"
    /\ pc' = "connect"
    /\ Moved("restart")
    /\ UNCHANGED <<ledger, locals, exchange>>

\* The account trades by other means than the copier: a lead trade.  The
\* program reads the history only in Poll and the exchange appends to it only
\* in an iteration of the loop, so a lead trade made while the program
\* sleeps, connects or is down is one made just before the next Poll.
LeadTrade ==
    /\ pc \in {"poll", "trades"}
    /\ Len(history) - Len(orders) < MaxLead
    /\ \E t \in LeadInputs :
          history' = Append(history, Fill(Len(history) + 1, t.symbol, t.side, t.price))
    /\ UNCHANGED <<pc, ledger, locals, orders, newest_first, unique_ids, rejected,
                   order_cap, ev>>

\* The program has just been started on a new trades.db, and nobody has
\* traded on the account yet.
Fresh ==
    /\ pc = "connect"
    /\ processed_trades = EmptyProcessed
    /\ holdings = EmptyHoldings
    /\ usdt_balance = 0
    /\ order_amount_usdt = 0
    /\ page = <<>>
    /\ amount = <<>>
    /\ history = <<>>
    /\ orders = <<>>
    /\ newest_first \in BOOLEAN
    /\ rejected = {}
    /\ order_cap = MaxOrders
    /\ ev = [op |-> "start", trade |-> NoTrade, result |-> "ok", accepted |-> FALSE]

Init == Fresh /\ unique_ids = TRUE

Next ==
    \/ Connect
    \/ Poll
    \/ PollFailed
    \/ SkipProcessed
    \/ SkipQuote
    \/ MarketError
    \/ Buy
    \/ Sell
    \/ OtherSide
    \/ EndCycle
    \/ Sleep
    \/ Stop
    \/ Restart
    \/ LeadTrade

Spec == Init /\ [][Next]_vars

\* The same program at an exchange whose order ids can repeat (the id of a
\* new order can be one that processed_trades already holds).
InitReusedIds == Fresh /\ unique_ids = FALSE /\ newest_first = TRUE

SpecReusedIds == InitReusedIds /\ [][Next]_vars

(***************************************************************************)
(* One cycle on a busy account: the program is connected to an account     *)
(* that has just made a run of lead buys of one market, as many as a page  *)
(* holds or more, and it polls once and goes through the page.             *)
(***************************************************************************)
BuyInputs ==
    {t \in LeadInputs : t.side = "buy" /\ KnownMarket(t.symbol) /\ Quote(t.symbol) = "USDT"}

BusyInit ==
    /\ pc = "poll"
    /\ processed_trades = EmptyProcessed
    /\ holdings = EmptyHoldings
    /\ usdt_balance = 0
    /\ order_amount_usdt = 0
    /\ page = <<>>
    /\ amount = <<>>
    /\ \E t \in BuyInputs, n \in {limit, limit + 2} :
          /\ history = [i \in 1..n |-> [order |-> i, symbol |-> t.symbol, side |-> t.side,
                                        price |-> t.price, timestamp |-> i]]
          /\ order_cap = n
    /\ orders = <<>>
    /\ newest_first \in BOOLEAN
    /\ unique_ids = TRUE
    /\ rejected = {}
    /\ ev = [op |-> "start", trade |-> NoTrade, result |-> "ok", accepted |-> FALSE]

BusyNext == Poll \/ Buy \/ EndCycle

BusySpec == BusyInit /\ [][BusyNext]_vars

(***************************************************************************)
(* The ledger alone: update_holdings called with any arguments, in any     *)
(* order, on a new database.  orders logs the calls.                       *)
(***************************************************************************)
\* The amounts passed to update_holdings.
Amounts == {1, 2}

LedgerInit ==
    /\ pc = "ledger"
    /\ processed_trades = EmptyProcessed
    /\ holdings = EmptyHoldings
    /\ usdt_balance = 0
    /\ order_amount_usdt = 0
    /\ page = <<>>
    /\ amount = <<>>
    /\ history = <<>>
    /\ orders = <<>>
    /\ newest_first = FALSE
    /\ unique_ids = TRUE
    /\ rejected = {}
    /\ order_cap = MaxCalls
    /\ ev = [op |-> "start", trade |-> NoTrade, result |-> "ok", accepted |-> FALSE]

CallUpdateHoldings ==
    /\ pc = "ledger"
    /\ Len(orders) < MaxCalls
    /\ \E symbol \in Symbols, amt \in Amounts, side \in {"buy", "sell"} :
          /\ holdings' = update_holdings(holdings, symbol, amt, side)
          /\ orders' = Append(orders, [id |-> 0, symbol |-> symbol, side |-> side,
                                       amount |-> amt, lead |-> 0])
    /\ UNCHANGED <<pc, processed_trades, locals, history, newest_first, unique_ids,
                   rejected, order_cap, ev>>

LedgerNext == CallUpdateHoldings

LedgerSpec == LedgerInit /\ [][LedgerNext]_vars

(***************************************************************************)
(* What the properties below read from a state.  None of it goes through   *)
(* the operators that model the program's own reads.                       *)
(***************************************************************************)
\* The order id has a row in the table pt, in processed_trades.
MarkedIn(pt, id) == \E r \in pt : r.ord_id = id
Marked(id) == MarkedIn(processed_trades, id)

\* The amount the holdings table records for the symbol, 0 without a row.
Recorded(h, symbol) == IF symbol \in DOMAIN h THEN h[symbol] ELSE 0

\* The sum of the amounts of the orders log(i), i \in 1..n, of one symbol
\* and side.
RECURSIVE SumOf(_, _, _, _)
SumOf(log, n, symbol, side) ==
    IF n = 0 THEN 0
    ELSE SumOf(log, n - 1, symbol, side)
         + (IF log[n].symbol = symbol /\ log[n].side = side THEN log[n].amount ELSE 0)

\* Buys minus sells of the symbol in the log.
Net(log, symbol) ==
    SumOf(log, Len(log), symbol, "buy") - SumOf(log, Len(log), symbol, "sell")

\* This step is one iteration of the for loop, on the trade at the head.
Step == AtTrade /\ ev' # ev /\ ev'.trade = Head(page)

\* The head of the page is a trade the loop has to act on.
Unhandled(t) == ~Marked(t.order) /\ t.symbol \in Symbols /\ Quote(t.symbol) = "USDT"

(***************************************************************************)
(* C1.  A fetched trade whose order id is in processed_trades is skipped: *)
(* the iteration on it submits no order, changes no holding and inserts no *)
(* row into processed_trades.                                              *)
(***************************************************************************)
C1_ProcessedTradeIsSkipped ==
    [][(AtTrade /\ Marked(Head(page).order))
          => /\ UNCHANGED <<orders, rejected, holdings, processed_trades>>
             /\ Step => ev'.op = "skip_processed"]_vars

\* A lead trade was copied and marked, and a later cycle has just skipped it.
C1_Witness ==
    /\ ev.op = "skip_processed"
    /\ \E i \in 1..Len(orders) : orders[i].lead = ev.trade.timestamp
    /\ \A i \in 1..Len(orders) : orders[i].id # ev.trade.order

(***************************************************************************)
(* C2.  The exchange accepts at most one order of the copier in response   *)
(* to one lead trade.                                                      *)
(***************************************************************************)
C2_AtMostOneOrderPerLeadTrade ==
    \A i, j \in 1..Len(orders) : orders[i].lead = orders[j].lead => i = j

(***************************************************************************)
(* C3.  An unprocessed lead buy is attempted whenever it is fetched.  When *)
(* its order is refused, the iteration leaves processed_trades and         *)
(* holdings as they were; when its order is accepted and recorded, exactly *)
(* one order was placed, the symbol's holding has grown by that order's    *)
(* amount and the trade is marked.                                         *)
(***************************************************************************)
C3_FailedBuyIsRetriedOnce ==
    [][(Step /\ Unhandled(Head(page)) /\ Head(page).side = "buy")
          => LET t == Head(page)
             IN  /\ ev'.op = "buy"
                 /\ orders' = orders
                       => /\ UNCHANGED <<processed_trades, holdings>>
                          /\ t.timestamp \in rejected'
                 /\ (orders' # orders /\ ev'.result # "halt")
                       => /\ Len(orders') = Len(orders) + 1
                          /\ Recorded(holdings', t.symbol)
                                = Recorded(holdings, t.symbol)
                                  + orders'[Len(orders')].amount
                          /\ \A s \in Symbols \ {t.symbol} :
                                Recorded(holdings', s) = Recorded(holdings, s)
                          /\ MarkedIn(processed_trades', t.order)]_vars

\* A buy whose order was refused in an earlier iteration has just been
\* copied, and the holding is the amount of the one accepted order.
C3_Witness ==
    /\ ev.op = "buy"
    /\ ev.result = "ok"
    /\ ev.trade.timestamp \in rejected
    /\ Len(orders) = 1
    /\ Recorded(holdings, ev.trade.symbol) = orders[1].amount

(***************************************************************************)
(* C4.  An eligible buy or sell whose iteration meets no order-placement   *)
(* error has its own order id in processed_trades when the iteration ends. *)
(***************************************************************************)
C4_LeadTradeIsMarked ==
    [][(Step /\ Unhandled(Head(page)) /\ Head(page).side \in {"buy", "sell"}
             /\ pc' = "trades" /\ Head(page).timestamp \notin rejected')
          => MarkedIn(processed_trades', Head(page).order)]_vars

(***************************************************************************)
(* C5.  The holding recorded for a symbol is what the exchange accepted    *)
(* for it: the amounts of the copier's buys minus those of its sells.      *)
(***************************************************************************)
C5_HoldingsMatchAcceptedOrders ==
    \A s \in Symbols : Recorded(holdings, s) = Net(orders, s)

(***************************************************************************)
(* C6.  After any calls of update_holdings on a new ledger,                *)
(* get_holding_amount(symbol) is the sum of the buy amounts minus the sum  *)
(* of the sell amounts passed for the symbol, 0 for a symbol never passed. *)
(***************************************************************************)
C6_HoldingIsBuysMinusSells ==
    pc = "ledger"
       => \A s \in Symbols : get_holding_amount(holdings, s) = Net(orders, s)

(***************************************************************************)
(* C7.  A lead sell handled while the symbol's recorded holding is 0 (or   *)
(* has no row) submits no order and leaves the holdings table as it is.    *)
(***************************************************************************)
C7_SellWithoutHoldingIsNoOp ==
    [][(AtTrade /\ Unhandled(Head(page)) /\ Head(page).side = "sell"
                /\ Recorded(holdings, Head(page).symbol) = 0)
          => UNCHANGED <<orders, rejected, holdings>>]_vars

\* A sell has just been handled with nothing to sell.
C7_Witness ==
    /\ ev.op = "sell"
    /\ ev.result \in {"ok", "raised"}
    /\ ~ev.accepted
    /\ Recorded(holdings, ev.trade.symbol) = 0

(***************************************************************************)
(* C8.  A lead sell handled while the symbol's recorded holding h is above *)
(* 0 sells exactly h; once the accepted order is recorded the holding is   *)
(* 0.  No recorded holding is ever negative.                               *)
(***************************************************************************)
C8_SellLiquidatesTheHolding ==
    /\ [][(Step /\ Unhandled(Head(page)) /\ Head(page).side = "sell"
                /\ Recorded(holdings, Head(page).symbol) > 0)
             => LET t == Head(page)
                IN  /\ ev'.op = "sell"
                    /\ orders' # orders
                          => /\ Len(orders') = Len(orders) + 1
                             /\ orders'[Len(orders')].amount = holdings[t.symbol]
                             /\ orders'[Len(orders')].symbol = t.symbol
                             /\ orders'[Len(orders')].side = "sell"
                    /\ (orders' # orders /\ ev'.result # "halt")
                          => holdings'[t.symbol] = 0]_vars
    /\ [](\A s \in DOMAIN holdings : holdings[s] >= 0)

\* A sell has just liquidated a holding.
C8_Witness ==
    /\ ev.op = "sell"
    /\ ev.accepted
    /\ ev.result # "halt"
    /\ orders[Len(orders)].amount > 0
    /\ holdings[ev.trade.symbol] = 0

(***************************************************************************)
(* C9.  A lead trade of a market not quoted in USDT causes no order, no    *)
(* change of a holding and no sizing (the local amount is not assigned),   *)
(* whenever it is fetched.                                                 *)
(***************************************************************************)
C9_NonUSDTTradeIsIgnored ==
    /\ [][(AtTrade /\ Quote(Head(page).symbol) # "USDT")
             => /\ UNCHANGED <<orders, rejected, holdings, processed_trades>>
                /\ Step => (amount' = amount /\ ev'.op \in {"skip_quote", "skip_processed"})]_vars
    /\ [](\A i \in 1..Len(orders) :
             /\ Quote(orders[i].symbol) = "USDT"
             /\ Quote(history[orders[i].lead].symbol) = "USDT")

\* A trade of ETH/BTC has just been skipped, in a state where the copier
\* has copied another trade.
C9_Witness ==
    /\ ev.op = "skip_quote"
    /\ Quote(ev.trade.symbol) = "BTC"
    /\ ~Marked(ev.trade.order)
    /\ orders # <<>>

(***************************************************************************)
(* C10.  When the insert of the new order's id fails on a duplicate key,   *)
(* the iteration goes on as after a successful insert: no error is         *)
(* reported, the holding is updated by the order's amount and the lead     *)
(* trade's own id is marked.  (Stated for the iterations in which line 156 *)
(* has a bound amount to read.)                                            *)
(***************************************************************************)
C10_DuplicateKeyIsIdempotentSuccess ==
    [][(Step /\ Unhandled(Head(page)) /\ orders' # orders /\ pc' = "trades"
             /\ Marked(orders'[Len(orders')].id)
             /\ (Head(page).side = "buy" \/ amount # <<>>))
          => LET t == Head(page)
                 o == orders'[Len(orders')]
             IN  /\ ev'.result = "ok"
                 /\ Recorded(holdings', t.symbol)
                       = Recorded(holdings, t.symbol)
                         + (IF t.side = "buy" THEN o.amount ELSE 0 - o.amount)
                 /\ MarkedIn(processed_trades', t.order)]_vars

(***************************************************************************)
(* C11.  An error raised while one trade of the page is handled does not   *)
(* end the cycle: the loop goes on with the next trade of the same page.   *)
(***************************************************************************)
C11_TradeErrorKeepsTheCycle ==
    [][(Step /\ ev'.result \in {"raised", "rejected"})
          => (pc' = "trades" /\ page' = Tail(page))]_vars

(***************************************************************************)
(* C12.  Once connected, the loop is left only by cancellation: an error   *)
(* of a poll or of a trade's handling leads to the backoff delay, and the  *)
(* backoff delay leads to the next poll.  The theorem is                   *)
(* C12_ErrorsNeverEndTheLoop, under FairSpec.                              *)
(***************************************************************************)
C12_OnlyCancellationStops ==
    [][/\ (pc \in {"poll", "trades", "sleep", "backoff"} /\ pc' = "stopped")
            => (ev'.op = "stop" \/ ev'.result = "halt")
       /\ (pc \in {"poll", "trades"} /\ ev'.op \in {"poll_failed", "market_error"})
            => pc' = "backoff"
       /\ (pc = "backoff" /\ pc' \notin {"backoff", "stopped"}) => pc' = "poll"]_vars

\* A cycle of an engine that has already placed an order has just failed on
\* a trade, and the engine is in the backoff delay, not stopped.
C12_Witness ==
    /\ pc = "backoff"
    /\ ev.op = "market_error"
    /\ orders # <<>>

\* asyncio.sleep(5) returns: the event loop resumes the coroutine after the
\* delay unless the task is cancelled meanwhile.
FairSpec == Spec /\ WF_vars(Sleep)

C12_BackoffEnds == (pc = "backoff") ~> (pc \in {"poll", "stopped"})

C12_ErrorsNeverEndTheLoop == C12_OnlyCancellationStops /\ C12_BackoffEnds

(***************************************************************************)
(* C13.  The trades of a fetched page are handled in ascending order of    *)
(* their timestamps, whichever way the exchange orders the page: the part  *)
(* of the page still to be handled is always sorted oldest first.          *)
(***************************************************************************)
C13_PageIsHandledOldestFirst ==
    \A i, j \in 1..Len(page) : i < j => page[i].timestamp < page[j].timestamp

(***************************************************************************)
(* C14.  A cancellation lets an order submission in flight complete and    *)
(* be recorded: in every stopped state the id of every order the exchange  *)
(* accepted is in processed_trades and the holdings reflect its amount.    *)
(***************************************************************************)
C14_StoppedLedgerHasEveryOrder ==
    pc = "stopped" =>
        /\ \A i \in 1..Len(orders) : Marked(orders[i].id)
        /\ \A s \in Symbols : Recorded(holdings, s) = Net(orders, s)

(***************************************************************************)
(* C15.  processed_trades is append-only: an order id is in at most one    *)
(* row, and no step of the program changes or removes a row, not even an   *)
(* insert of an order id that is already there.                            *)
(***************************************************************************)
C15_ProcessedTradesIsAppendOnly ==
    /\ [](\A r1, r2 \in processed_trades : r1.ord_id = r2.ord_id => r1 = r2)
    /\ [][processed_trades \subseteq processed_trades']_vars

\* The exchange has accepted a buy order under an id that is already in
\* processed_trades, and the insert of line 140 has raised.
C15_Witness ==
    /\ ev.op = "buy"
    /\ ev.accepted
    /\ ev.result = "raised"
    /\ orders # <<>>
    /\ Marked(orders[Len(orders)].id)

(***************************************************************************)
(* C16.  A follower buy order is for (balance read in the cycle * 0.10) /  *)
(* lead price, and once the order is recorded the holding of the symbol    *)
(* has grown by exactly that amount.                                       *)
(***************************************************************************)
C16_BuyIsATenthOfTheBalance ==
    [][(Step /\ Unhandled(Head(page)) /\ Head(page).side = "buy" /\ orders' # orders)
          => LET t == Head(page)
                 o == orders'[Len(orders')]
             IN  /\ o.side = "buy"
                 /\ o.symbol = t.symbol
                 /\ o.amount * t.price * 10 = usdt_balance
                 /\ pc' = "trades"
                      => Recorded(holdings', t.symbol)
                           = Recorded(holdings, t.symbol) + o.amount]_vars

\* A second buy of a symbol, of another amount than the first, has been
\* recorded on top of the first.
C16_Witness ==
    /\ ev.op = "buy"
    /\ ev.accepted
    /\ ev.result = "ok"
    /\ Len(orders) = 2
    /\ orders[1].amount # orders[2].amount
    /\ orders[1].symbol = orders[2].symbol
    /\ Recorded(holdings, orders[2].symbol) = orders[1].amount + orders[2].amount

(***************************************************************************)
(* C17.  When the exchange accepts a follower order and the iteration goes *)
(* on, the id of the order is in processed_trades before the next trade is *)
(* handled; and when the fill of a follower order whose id is in           *)
(* processed_trades comes up in a page, it is skipped and no order is      *)
(* submitted for it.                                                       *)
(***************************************************************************)
C17_FollowerOrderIsNeverCopied ==
    /\ [][(Step /\ orders' # orders /\ pc' = "trades")
             => MarkedIn(processed_trades', orders'[Len(orders')].id)]_vars
    /\ [][(AtTrade /\ Marked(Head(page).order)
                   /\ \E i \in 1..Len(orders) : orders[i].id = Head(page).order)
             => /\ UNCHANGED <<orders, rejected, holdings, processed_trades>>
                /\ Step => ev'.op = "skip_processed"]_vars

\* The fill of a follower order has come up in a page and has been skipped.
C17_Witness ==
    /\ ev.op = "skip_processed"
    /\ \E i \in 1..Len(orders) : orders[i].id = ev.trade.order
    /\ \A j \in 1..Len(orders) : orders[j].lead # ev.trade.timestamp

(***************************************************************************)
(* C18.  A lead trade whose side is neither buy nor sell is skipped:       *)
(* handling it submits no order, changes no holding and writes no row to   *)
(* processed_trades.                                                       *)
(***************************************************************************)
C18_OtherSideWritesNothing ==
    [][(AtTrade /\ Unhandled(Head(page)) /\ Head(page).side \notin {"buy", "sell"})
          => UNCHANGED <<orders, rejected, holdings, processed_trades>>]_vars

(***************************************************************************)
(* C19.  A follower sell submitted for a lead sell S never liquidates what *)
(* was bought by copying a lead buy of the same symbol that is later than  *)
(* S: every copied lead buy whose order precedes the sell order is for a   *)
(* lead trade older than S.                                                *)
(***************************************************************************)
IsLead(ts) == \A k \in 1..Len(orders) : orders[k].id # history[ts].order

C19_SellNeverLiquidatesALaterBuy ==
    \A i, j \in 1..Len(orders) :
        (/\ j < i
         /\ orders[i].side = "sell"
         /\ orders[j].side = "buy"
         /\ orders[i].symbol = orders[j].symbol
         /\ IsLead(orders[i].lead)
         /\ IsLead(orders[j].lead))
        => orders[j].lead < orders[i].lead

(***************************************************************************)
(* C20.  The quote value committed by the buy orders submitted in one      *)
(* cycle, each a tenth of the balance read at the start of the cycle for   *)
(* one of the at most 10 trades of the page, never exceeds that balance.   *)
(***************************************************************************)
RECURSIVE Committed(_)
Committed(n) ==
    IF n = 0 THEN 0
    ELSE Committed(n - 1)
           + (IF orders[n].side = "buy"
              THEN orders[n].amount * history[orders[n].lead].price
              ELSE 0)

=============================================================================
